---- MODULE Spec2Model ----
(***************************************************************************)
(* State-machine model of libs/vr/libvrflinger/display_manager_service.cpp *)
(* (DisplayManager and DisplayManagerService).                             *)
(*                                                                         *)
(* The service state proper is the single field display_manager_.  The     *)
(* transport (channel table and per-channel event mask) and the display    *)
(* service (surface registry) are collaborators whose state the handlers   *)
(* read and write through calls; they are modelled from their contracts.   *)
(* Events are delivered serially: every action is one whole handler.       *)
(***************************************************************************)
EXTENDS Integers, Sequences, FiniteSets, TLC

\* ------------------------------------------------------------------ bounds
MaxChannels == 2
MaxSurfaces == 1
MaxQueues == 1

\* --------------------------------------------------------------- constants
AID_ROOT == 0
AID_SYSTEM == 1000
UntrustedUid == 5000

NoChannel == 0                       \* nullptr / empty shared_ptr
ChannelIds == 1..MaxChannels         \* handles the transport can issue
SurfaceIds == 1..MaxSurfaces
QueueIds == 1..MaxQueues

Uids == {AID_ROOT, AID_SYSTEM, UntrustedUid}
TrustedUids == {AID_SYSTEM}          \* the platform's trusted-identity set

POLLIN == "POLLIN"

OK == "OK"
EPERM == "EPERM"
EINVAL == "EINVAL"
ENOENT == "ENOENT"

Application == "Application"
Direct == "Direct"
SurfaceTypes == {Application, Direct}

kLensMetrics == "kLensMetrics"
kDeviceMetrics == "kDeviceMetrics"
kDeviceConfiguration == "kDeviceConfiguration"
ConfigFileTypes == {kLensMetrics, kDeviceMetrics, kDeviceConfiguration}

kDvrLensMetricsProperty == "ro.dvr.lens_metrics"
kDvrDeviceMetricsProperty == "ro.dvr.device_metrics"
kDvrDeviceConfigProperty == "ro.dvr.device_configuration"
NoProperty == ""

NewSurface == "NewSurface"
BuffersChanged == "BuffersChanged"

VARIABLES
  display_manager_,   \* DisplayManagerService::display_manager_ (channel id or NoChannel)
  open_channels,      \* transport: channels admitted with a channel object, not yet closed
  channel_events,     \* transport: event mask of every channel
  surfaces,           \* display service: surface registry
  issued,             \* transport: number of channel handles issued to admitted channels
  last,               \* the last event handled: inputs, reply and collaborator calls
  opener,             \* history: effective uid that opened the live channel
  mutated,            \* history: a surface mutation since the live channel's last
                      \*   GetSurfaceState (or its creation)
  transitions,        \* history: false-to-true steps of the pending flag since then
  toggle_failed       \* history: a ModifyChannelEvents call failed since then

vars == <<display_manager_, open_channels, channel_events, surfaces, issued, last,
          opener, mutated, transitions, toggle_failed>>

NoUid == -1

\* ------------------------------------------------------------ collaborators
IsTrustedUid(user_id) == user_id \in TrustedUids

NoSurface ==
  [present |-> FALSE, surface_type |-> Direct, update_flags |-> {}, queue_ids |-> {}]

\* Service::ModifyChannelEvents: ok is whether the transport applied the change.
ModifyChannelEvents(events, channel_id, clear_mask, set_mask, ok) ==
  IF ok
    THEN [events EXCEPT ![channel_id] = (@ \ clear_mask) \cup set_mask]
    ELSE events

ModifyCall(channel_id, clear_mask, set_mask, ok) ==
  [fn |-> "ModifyChannelEvents", channel_id |-> channel_id,
   clear_mask |-> clear_mask, set_mask |-> set_mask, ok |-> ok]

\* The pending flag of a channel is its POLLIN event bit.
NotificationsPending(channel_id) == POLLIN \in channel_events[channel_id]

\* --------------------------------------------------------------- DisplayManager
\* Fault variant: the clear mask chosen by the opposite test.
SetNotificationsPendingClearInverted(pending) == IF pending THEN {POLLIN} ELSE {}

SetNotificationsPendingClear(pending) == IF pending THEN {} ELSE {POLLIN}
\* Fault variant: the set mask chosen by the opposite test.
SetNotificationsPendingSetInverted(pending) == IF pending THEN {} ELSE {POLLIN}

SetNotificationsPendingSet(pending) == IF pending THEN {POLLIN} ELSE {}

SetNotificationsPending(events, channel_id, pending, ok) ==
  ModifyChannelEvents(events, channel_id,
                      SetNotificationsPendingClear(pending),
                      SetNotificationsPendingSet(pending), ok)

SetNotificationsPendingCalls(channel_id, pending, ok) ==
  << ModifyCall(channel_id, SetNotificationsPendingClear(pending),
                SetNotificationsPendingSet(pending), ok) >>

\* ------------------------------------------------------------------- replies
Reply ==
  [op |-> "none", user_id |-> NoUid, channel_id |-> NoChannel,
   surface_id |-> 0, queue_id |-> 0, error |-> OK, channel |-> NoChannel,
   items |-> << >>, config_type |-> "", data |-> "", calls |-> << >>]

Init ==
  /\ display_manager_ = NoChannel
  /\ open_channels = {}
  /\ channel_events = [c \in ChannelIds |-> {}]
  /\ surfaces = [s \in SurfaceIds |-> NoSurface]
  /\ issued = 0
  /\ last = Reply
  /\ opener = NoUid
  /\ mutated = FALSE
  /\ transitions = 0
  /\ toggle_failed = FALSE

\* ------------------------------------------------------------ channel lifecycle
\* Fault variant: the root comparison inverted.
TrustedUnlessRoot(user_id) == user_id # AID_ROOT \/ IsTrustedUid(user_id)

Trusted(user_id) == user_id = AID_ROOT \/ IsTrustedUid(user_id)

\* Fault variants of the admission guard: the live-session test dropped, the
\* trust test dropped, and the two tests joined by "and".
OnChannelOpenRejectsUntrusted(user_id) == ~Trusted(user_id)
OnChannelOpenRejectsLive(user_id) == display_manager_ # NoChannel
OnChannelOpenRejectsBoth(user_id) == display_manager_ # NoChannel /\ ~Trusted(user_id)

OnChannelOpenRejects(user_id) == display_manager_ # NoChannel \/ ~Trusted(user_id)

\* The transport names every connection it admits by a fresh handle: handles are
\* issued in increasing order and never reused.  Admissions stop when the
\* handles run out; attempts that are turned away need none.
OnChannelOpen ==
  \E user_id \in Uids :
    LET channel_id == issued + 1 IN
    /\ OnChannelOpenRejects(user_id) \/ channel_id \in ChannelIds
    /\ IF OnChannelOpenRejects(user_id)
         THEN /\ last' = [Reply EXCEPT !.op = "OnChannelOpen", !.user_id = user_id,
                                       !.error = EPERM]
              /\ UNCHANGED <<display_manager_, open_channels, channel_events, issued,
                             opener, mutated, transitions, toggle_failed>>
         ELSE /\ display_manager_' = channel_id
              /\ open_channels' = open_channels \cup {channel_id}
              /\ channel_events' = [channel_events EXCEPT ![channel_id] = {}]
              /\ issued' = channel_id
              /\ last' = [Reply EXCEPT !.op = "OnChannelOpen", !.user_id = user_id,
                                       !.channel_id = channel_id, !.channel = channel_id]
              /\ opener' = user_id
              /\ mutated' = FALSE
              /\ transitions' = 0
              /\ toggle_failed' = FALSE
    /\ UNCHANGED surfaces

\* Fault variants: the reference is never cleared, cleared by every close, and
\* cleared by the close of any channel but the live one.
OnChannelCloseKeeps(channel) == FALSE
OnChannelCloseClearsAny(channel) == TRUE
OnChannelCloseClearsOther(channel) == display_manager_ # channel

OnChannelCloseClears(channel) == display_manager_ = channel

\* channel is the closing connection's channel object: an admitted channel, or
\* NoChannel for a connection that never got one.
OnChannelClose ==
  \E channel \in open_channels \cup {NoChannel} :
    /\ display_manager_' = IF OnChannelCloseClears(channel) THEN NoChannel
                           ELSE display_manager_
    /\ open_channels' = open_channels \ {channel}
    /\ channel_events' = IF channel \in ChannelIds
                           THEN [channel_events EXCEPT ![channel] = {}]
                           ELSE channel_events
    /\ last' = [Reply EXCEPT !.op = "OnChannelClose", !.channel_id = channel]
    /\ IF display_manager_' = NoChannel
         THEN /\ opener' = NoUid
              /\ mutated' = FALSE
              /\ transitions' = 0
              /\ toggle_failed' = FALSE
         ELSE UNCHANGED <<opener, mutated, transitions, toggle_failed>>
    /\ UNCHANGED <<surfaces, issued>>

\* ------------------------------------------------------------- display service
\* DisplayService::ForEachDisplaySurface visits the surfaces of one type, in
\* registry (surface id) order.
SurfacesOfType(surface_type) ==
  {id \in SurfaceIds : surfaces[id].present /\ surfaces[id].surface_type = surface_type}

Min(S) == CHOOSE x \in S : \A y \in S : x <= y

RECURSIVE InOrder(_)
InOrder(ids) ==
  IF ids = {} THEN << >> ELSE <<Min(ids)>> \o InOrder(ids \ {Min(ids)})

ForEachDisplaySurface(surface_type) == InOrder(SurfacesOfType(surface_type))

\* DisplaySurface::ClearUpdate
ClearUpdate(surface) == [surface EXCEPT !.update_flags = {}]

\* DisplayService::GetDisplaySurface: the surface, or NoSurface for an unknown id.
GetDisplaySurface(surface_id) ==
  IF surface_id \in SurfaceIds THEN surfaces[surface_id] ELSE NoSurface

\* ApplicationDisplaySurface::GetQueue: whether the surface has the queue.
GetQueue(surface, queue_id) == queue_id \in surface.queue_ids

\* ------------------------------------------------------------ message handlers
\* The element pushed for one visited surface (process_id, user_id and attributes
\* are copied from fields no handler of this file writes; they are left out).
SurfaceStateOf(surface_id) ==
  [surface_id |-> surface_id,
   update_flags |-> surfaces[surface_id].update_flags,
   queue_ids |-> surfaces[surface_id].queue_ids]

\* Fault variant: the enumeration asks for the other surface type.
OnGetSurfaceStateDirect == Direct

OnGetSurfaceStateType == Application

OnGetSurfaceStateItems ==
  LET visited == ForEachDisplaySurface(OnGetSurfaceStateType)
  IN  [i \in 1..Len(visited) |-> SurfaceStateOf(visited[i])]

\* Fault variant: the visitor does not call ClearUpdate.
OnGetSurfaceStateKeeps(surface) == surface

OnGetSurfaceStateVisit(surface) == ClearUpdate(surface)

\* Fault variant: ClearUpdate reaches every registered surface.
OnGetSurfaceStateSurfacesAll ==
  [id \in SurfaceIds |->
     IF surfaces[id].present THEN OnGetSurfaceStateVisit(surfaces[id])
                             ELSE surfaces[id]]

OnGetSurfaceStateSurfaces ==
  [id \in SurfaceIds |->
     IF id \in SurfacesOfType(OnGetSurfaceStateType)
       THEN OnGetSurfaceStateVisit(surfaces[id])
       ELSE surfaces[id]]

OnGetSurfaceStatePending == FALSE

\* Fault variant: a failed toggle becomes the reply.
OnGetSurfaceStateStatusOfToggle(ok) == IF ok THEN OK ELSE "ModifyChannelEvents"

\* The handler returns the items whatever SetNotificationsPending met.
OnGetSurfaceStateStatus(ok) == OK

\* Dereferencing an empty display_manager_ is undefined behaviour: the handler
\* may fault or go on without a toggle.
OnGetSurfaceState ==
  \E ok \in BOOLEAN :
    /\ surfaces' = OnGetSurfaceStateSurfaces
    /\ IF display_manager_ # NoChannel
         THEN /\ channel_events' =
                   SetNotificationsPending(channel_events, display_manager_,
                                           OnGetSurfaceStatePending, ok)
              /\ last' = [Reply EXCEPT
                            !.op = "GetSurfaceState",
                            !.items = OnGetSurfaceStateItems,
                            !.error = OnGetSurfaceStateStatus(ok),
                            !.calls = SetNotificationsPendingCalls(
                                        display_manager_, OnGetSurfaceStatePending, ok)]
              /\ toggle_failed' = ~ok
         ELSE /\ channel_events' = channel_events
              /\ last' = [Reply EXCEPT
                            !.op = "GetSurfaceState",
                            !.items = OnGetSurfaceStateItems,
                            !.error = IF ok THEN OK ELSE "SIGSEGV"]
              /\ toggle_failed' = FALSE
    /\ mutated' = FALSE
    /\ transitions' = 0
    /\ UNCHANGED <<display_manager_, open_channels, issued, opener>>

\* Fault variant: the surface type is not tested.
OnGetSurfaceQueueRejectsMissing(surface) == ~surface.present

OnGetSurfaceQueueRejectsSurface(surface) ==
  ~surface.present \/ surface.surface_type # Application

OnGetSurfaceQueueRejectsQueue(surface, queue_id) == ~GetQueue(surface, queue_id)

CreateCall(surface_id, queue_id, ok) ==
  [fn |-> "CreateConsumerQueueHandle", surface_id |-> surface_id,
   queue_id |-> queue_id, ok |-> ok]

\* surface_id and queue_id come from the client: an id past the last one the
\* registry can hold is drawn too.
OnGetSurfaceQueue ==
  \E surface_id \in 1..(MaxSurfaces + 1), queue_id \in 1..(MaxQueues + 1) :
    LET surface == GetDisplaySurface(surface_id)
        request == [Reply EXCEPT !.op = "GetSurfaceQueue",
                                 !.surface_id = surface_id, !.queue_id = queue_id]
    IN
    /\ IF OnGetSurfaceQueueRejectsSurface(surface)
         THEN last' = [request EXCEPT !.error = EINVAL]
         ELSE IF OnGetSurfaceQueueRejectsQueue(surface, queue_id)
           THEN last' = [request EXCEPT !.error = EINVAL]
           ELSE \E ok \in BOOLEAN :
                  last' = [request EXCEPT
                             !.error = IF ok THEN OK ELSE "CreateConsumerQueueHandle",
                             !.calls = << CreateCall(surface_id, queue_id, ok) >>]
    /\ UNCHANGED <<display_manager_, open_channels, channel_events, surfaces,
                   issued, opener, mutated, transitions, toggle_failed>>

\* Fault variant: the trust test is missing.
OnSetupNamedBufferRejectsNobody(user_id) == FALSE

OnSetupNamedBufferRejects(user_id) == ~Trusted(user_id)

\* user_id is the sender's effective uid when it sends this message; ok is
\* whether DisplayService::SetupNamedBuffer produced a buffer.
OnSetupNamedBuffer ==
  \E user_id \in Uids :
    LET request == [Reply EXCEPT !.op = "SetupNamedBuffer", !.user_id = user_id] IN
    /\ IF OnSetupNamedBufferRejects(user_id)
         THEN last' = [request EXCEPT !.error = EPERM]
         ELSE \E ok \in BOOLEAN :
                last' = [request EXCEPT
                           !.error = IF ok THEN OK ELSE "SetupNamedBuffer",
                           !.calls = << [fn |-> "SetupNamedBuffer", ok |-> ok] >>]
    /\ UNCHANGED <<display_manager_, open_channels, channel_events, surfaces,
                   issued, opener, mutated, transitions, toggle_failed>>

\* Fault variant: two cases of the switch name each other's property.
PropertyNameSwapped(config_type) ==
  CASE config_type = kLensMetrics -> kDvrLensMetricsProperty
    [] config_type = kDeviceMetrics -> kDvrDeviceConfigProperty
    [] config_type = kDeviceConfiguration -> kDvrDeviceMetricsProperty
    [] OTHER -> NoProperty

\* The property read for a configuration type; NoProperty for any other value.
PropertyName(config_type) ==
  CASE config_type = kLensMetrics -> kDvrLensMetricsProperty
    [] config_type = kDeviceMetrics -> kDvrDeviceMetricsProperty
    [] config_type = kDeviceConfiguration -> kDvrDeviceConfigProperty
    [] OTHER -> NoProperty

\* file_path is what base::GetProperty returns for the property ("" when it is
\* unset), read what base::ReadFileToString makes of that path.
OnGetConfigurationData ==
  \E config_type \in ConfigFileTypes \cup {"kUnknown"} :
    LET property_name == PropertyName(config_type)
        request == [Reply EXCEPT !.op = "GetConfigurationData",
                                 !.config_type = config_type]
    IN
    /\ IF property_name = NoProperty
         THEN last' = [request EXCEPT !.error = EINVAL]
         ELSE \E file_path \in {"", "/config"} :
           LET get == [fn |-> "GetProperty", name |-> property_name,
                       value |-> file_path]
           IN
           IF file_path = ""
             THEN last' = [request EXCEPT !.error = ENOENT, !.calls = <<get>>]
             ELSE \E read \in {"errno", "bytes"} :
               LET rd == [fn |-> "ReadFileToString", path |-> file_path,
                          result |-> read]
               IN
               IF read = "errno"
                 THEN last' = [request EXCEPT !.error = "errno", !.calls = <<get, rd>>]
                 ELSE last' = [request EXCEPT !.data = read, !.calls = <<get, rd>>]
    /\ UNCHANGED <<display_manager_, open_channels, channel_events, surfaces,
                   issued, opener, mutated, transitions, toggle_failed>>

\* Any other opcode goes to Service::DefaultHandleMessage, which touches nothing
\* of this service.
DefaultHandleMessage ==
  /\ last' = [Reply EXCEPT !.op = "DefaultHandleMessage"]
  /\ UNCHANGED <<display_manager_, open_channels, channel_events, surfaces,
                 issued, opener, mutated, transitions, toggle_failed>>

\* The transport delivers messages only on channels that are open.
Deliverable == open_channels # {}

GetSurfaceState == Deliverable /\ OnGetSurfaceState
GetSurfaceQueue == Deliverable /\ OnGetSurfaceQueue
SetupNamedBuffer == Deliverable /\ OnSetupNamedBuffer
GetConfigurationData == Deliverable /\ OnGetConfigurationData
OtherMessage == Deliverable /\ DefaultHandleMessage

\* DisplayManagerService::HandleMessage: the switch over the message's opcode.
HandleMessage ==
  \/ GetSurfaceState
  \/ GetSurfaceQueue
  \/ SetupNamedBuffer
  \/ GetConfigurationData
  \/ OtherMessage

\* ---------------------------------------------------------- surface mutations
\* OnDisplaySurfaceChange: the notifier the constructor registers with the
\* display service, run by it after every change to a surface.
\* Fault variant: the notifier does not test the reference.
OnDisplaySurfaceChangeArmsAlways == TRUE

OnDisplaySurfaceChangeArms == display_manager_ # NoChannel

\* Fault variant: the notifier disarms.
OnDisplaySurfaceChangeDisarms == FALSE

OnDisplaySurfaceChangePending == TRUE

OnDisplaySurfaceChange(ok) ==
  /\ IF OnDisplaySurfaceChangeArms
       THEN /\ channel_events' =
                 SetNotificationsPending(channel_events, display_manager_,
                                         OnDisplaySurfaceChangePending, ok)
            /\ last' = [Reply EXCEPT
                          !.op = "OnDisplaySurfaceChange",
                          !.calls = SetNotificationsPendingCalls(
                                      display_manager_, OnDisplaySurfaceChangePending, ok)]
       ELSE /\ channel_events' = channel_events
            /\ last' = [Reply EXCEPT !.op = "OnDisplaySurfaceChange"]
  /\ IF display_manager_ # NoChannel
       THEN /\ mutated' = TRUE
            /\ transitions' =
                 IF ~NotificationsPending(display_manager_)
                    /\ POLLIN \in channel_events'[display_manager_]
                   THEN transitions + 1 ELSE transitions
            /\ toggle_failed' = (toggle_failed \/ (OnDisplaySurfaceChangeArms /\ ~ok))
       ELSE UNCHANGED <<mutated, transitions, toggle_failed>>
  /\ UNCHANGED <<display_manager_, open_channels, issued, opener>>

\* Toggles fail only when there is a channel to toggle.
ToggleOutcomes == IF display_manager_ # NoChannel THEN BOOLEAN ELSE {TRUE}

CreateSurface ==
  \E id \in SurfaceIds, surface_type \in SurfaceTypes, ok \in ToggleOutcomes :
    /\ ~surfaces[id].present
    /\ surfaces' = [surfaces EXCEPT ![id] =
                      [present |-> TRUE, surface_type |-> surface_type,
                       update_flags |-> {NewSurface}, queue_ids |-> {}]]
    /\ OnDisplaySurfaceChange(ok)

RemoveSurface ==
  \E id \in SurfaceIds, ok \in ToggleOutcomes :
    /\ surfaces[id].present
    /\ surfaces' = [surfaces EXCEPT ![id] = NoSurface]
    /\ OnDisplaySurfaceChange(ok)

\* A surface of either type numbers its queues in the order it creates them.
CreateQueue ==
  \E id \in SurfaceIds, ok \in ToggleOutcomes :
    LET queue_id == Cardinality(surfaces[id].queue_ids) + 1 IN
    /\ surfaces[id].present
    /\ queue_id \in QueueIds
    /\ surfaces' = [surfaces EXCEPT
                      ![id].queue_ids = @ \cup {queue_id},
                      ![id].update_flags = @ \cup {BuffersChanged}]
    /\ OnDisplaySurfaceChange(ok)

Next ==
  \/ OnChannelOpen
  \/ OnChannelClose
  \/ HandleMessage
  \/ CreateSurface
  \/ RemoveSurface
  \/ CreateQueue

Spec == Init /\ [][Next]_vars

\* The service with a client that keeps polling: a GetSurfaceState that stays
\* deliverable is eventually delivered.
SpecPolled == Init /\ [][Next]_vars /\ WF_vars(GetSurfaceState)

\* ======================================================================
\* Properties
\* ======================================================================

\* C1: at most one DisplayManagerChannel is live: the set of admitted and not
\* yet closed channels has size 0 or 1, and when it has size 1 its member is
\* the channel display_manager_ refers to.
C1_AtMostOneLiveChannel ==
  /\ Cardinality(open_channels) <= 1
  /\ open_channels # {} => open_channels = {display_manager_}

\* A second session is live and a further attempt has just been turned away.
C1_Witness ==
  /\ open_channels = {display_manager_}
  /\ issued > 1
  /\ last.op = "OnChannelOpen"
  /\ last.error = EPERM

\* C2: while an admitted channel is open, every OnChannelOpen, by any identity,
\* is answered EPERM, returns no channel object and admits nothing.
C2_SecondAdmissionRejected ==
  [][(OnChannelOpen /\ open_channels # {}) =>
       /\ last'.error = EPERM
       /\ last'.channel = NoChannel
       /\ open_channels' = open_channels
       /\ display_manager_' = display_manager_]_vars

\* A trusted identity was turned away because a channel is live.
C2_Witness ==
  /\ last.op = "OnChannelOpen"
  /\ last.error = EPERM
  /\ last.user_id \in {AID_ROOT} \cup TrustedUids
  /\ open_channels # {}

\* C3: an OnChannelOpen by an identity that is neither root nor in the trusted
\* set is answered EPERM and returns no channel object, live channel or not.
C3_UntrustedRejected ==
  (last.op = "OnChannelOpen" /\ last.user_id # AID_ROOT /\ last.user_id \notin TrustedUids)
    => (last.error = EPERM /\ last.channel = NoChannel)

\* An untrusted identity was turned away although no channel was live, after an
\* earlier session had been closed.
C3_Witness ==
  /\ last.op = "OnChannelOpen"
  /\ last.user_id = UntrustedUid
  /\ last.error = EPERM
  /\ display_manager_ = NoChannel
  /\ issued > 0

\* C4: whenever a channel is live, the identity that opened it is root or a
\* member of the trusted set.
C4_LiveChannelOpenedByTrusted ==
  display_manager_ # NoChannel => (opener = AID_ROOT \/ opener \in TrustedUids)

\* A channel opened by a non-root trusted identity is live and has served a
\* message.
C4_Witness ==
  /\ display_manager_ # NoChannel
  /\ opener \in TrustedUids
  /\ opener # AID_ROOT
  /\ last.op = "GetSurfaceState"

\* C5: an OnChannelOpen by a trusted identity is accepted exactly when no
\* admitted channel is open; when accepted, the new channel is bound to the
\* handle of the message and is the only live session; an untrusted identity
\* is rejected also when none is open.
C5_TrustedAdmittedIffNoneLive ==
  [][OnChannelOpen =>
       IF last'.user_id = AID_ROOT \/ last'.user_id \in TrustedUids
         THEN /\ (last'.error = OK) <=> (open_channels = {})
              /\ (last'.channel # NoChannel) <=> (open_channels = {})
              /\ open_channels = {} =>
                    /\ last'.channel = issued + 1
                    /\ display_manager_' = last'.channel
                    /\ open_channels' = {last'.channel}
         ELSE last'.error = EPERM /\ open_channels' = open_channels]_vars

\* The second session: root was admitted after the first channel had closed.
C5_Witness ==
  /\ last.op = "OnChannelOpen"
  /\ last.user_id = AID_ROOT
  /\ last.error = OK
  /\ issued > 1
  /\ display_manager_ = issued
  /\ open_channels = {issued}

\* C6 as stated: whenever a channel is live, its pending flag is true exactly
\* when a surface mutation has occurred since its last GetSurfaceState (or
\* since its creation).
C6_PendingIffMutated ==
  display_manager_ # NoChannel =>
    (NotificationsPending(display_manager_) <=> mutated)

\* C6 amended: the equivalence holds whenever no ModifyChannelEvents call on
\* the live channel has failed since (and including) the toggle of its last
\* GetSurfaceState, or since its creation.
C6_PendingIffMutatedUnlessToggleFailed ==
  (display_manager_ # NoChannel /\ ~toggle_failed) =>
    (NotificationsPending(display_manager_) <=> mutated)

\* The flag armed by a mutation is still set while another message is served.
C6_Witness ==
  /\ display_manager_ # NoChannel
  /\ ~toggle_failed
  /\ mutated
  /\ NotificationsPending(display_manager_)
  /\ last.op = "GetSurfaceQueue"

C7_ApplicationSurfaces ==
  {id \in SurfaceIds : surfaces[id].present /\ surfaces[id].surface_type = "Application"}

C7_ExactlyApplicationSurfaces ==
  /\ Len(last.items) = Cardinality(C7_ApplicationSurfaces)
  /\ {last.items[i].surface_id : i \in 1..Len(last.items)} = C7_ApplicationSurfaces

\* C7 as stated: GetSurfaceState returns one snapshot for each application
\* surface present and none for any other surface, and the live channel's
\* pending flag is false right after the call.
C7_SnapshotExactAndDisarmed ==
  (last.op = "GetSurfaceState" /\ display_manager_ # NoChannel) =>
    /\ C7_ExactlyApplicationSurfaces
    /\ ~NotificationsPending(display_manager_)

\* C7 amended: the returned sequence is as stated, and the pending flag is
\* false right after the call whenever the call's ModifyChannelEvents toggle
\* succeeded.
C7_SnapshotExactAndDisarmedIfToggled ==
  (last.op = "GetSurfaceState" /\ display_manager_ # NoChannel) =>
    /\ C7_ExactlyApplicationSurfaces
    /\ \A i \in 1..Len(last.calls) :
         (last.calls[i].fn = "ModifyChannelEvents" /\ last.calls[i].ok)
           => ~NotificationsPending(display_manager_)

\* A GetSurfaceState returned the one application surface and disarmed the flag.
C7_Witness ==
  /\ last.op = "GetSurfaceState"
  /\ display_manager_ # NoChannel
  /\ Len(last.items) = 1
  /\ Len(last.calls) = 1
  /\ last.calls[1].ok
  /\ ~NotificationsPending(display_manager_)

\* C8 as stated: between two GetSurfaceState calls of a live channel (or since
\* its creation) the flag has made exactly one false-to-true step, and is
\* true, if a mutation has occurred, and has made none otherwise.
C8_ArmedExactlyOnce ==
  display_manager_ # NoChannel =>
    IF mutated
      THEN transitions = 1 /\ NotificationsPending(display_manager_)
      ELSE transitions = 0

\* C8 amended: a mutation whose toggle succeeds leaves the flag true; the flag
\* makes at most one false-to-true step between two GetSurfaceState calls,
\* none when no mutation has occurred, and exactly one (leaving it true) when
\* a mutation has occurred and no toggle has failed since, and including, the
\* preceding GetSurfaceState.
C8_ArmedAtMostOnce ==
  display_manager_ # NoChannel =>
    /\ transitions <= 1
    /\ ~mutated => transitions = 0
    /\ (mutated /\ ~toggle_failed) =>
         (transitions = 1 /\ NotificationsPending(display_manager_))
    /\ (last.op = "OnDisplaySurfaceChange" /\ Len(last.calls) = 1 /\ last.calls[1].ok)
         => NotificationsPending(display_manager_)

\* A mutation has just armed the flag of the live channel.
C8_Witness ==
  /\ display_manager_ # NoChannel
  /\ mutated
  /\ ~toggle_failed
  /\ transitions = 1
  /\ NotificationsPending(display_manager_)
  /\ last.op = "OnDisplaySurfaceChange"

\* C9: each snapshot GetSurfaceState returns carries the update flags its
\* surface had just before the call; right after the call every application
\* surface has empty update flags; and a GetSurfaceState that directly
\* follows another returns the same surfaces with empty update flags.
C9_MarksSurfacesSeen ==
  [][GetSurfaceState =>
       /\ \A i \in 1..Len(last'.items) :
            /\ last'.items[i].update_flags =
                 surfaces[last'.items[i].surface_id].update_flags
            /\ surfaces'[last'.items[i].surface_id].update_flags = {}
       /\ \A id \in SurfaceIds :
            (surfaces[id].present /\ surfaces[id].surface_type = "Application")
              => surfaces'[id].update_flags = {}
       /\ last.op = "GetSurfaceState" =>
            /\ Len(last'.items) = Len(last.items)
            /\ \A i \in 1..Len(last'.items) :
                 /\ last'.items[i].surface_id = last.items[i].surface_id
                 /\ last'.items[i].update_flags = {}]_vars

\* A snapshot reported update flags that the surface no longer has.
C9_Witness ==
  /\ last.op = "GetSurfaceState"
  /\ \E i \in 1..Len(last.items) :
       /\ last.items[i].update_flags # {}
       /\ surfaces[last.items[i].surface_id].update_flags = {}

C10_BadRequest ==
  \/ last.surface_id \notin SurfaceIds
  \/ ~surfaces[last.surface_id].present
  \/ surfaces[last.surface_id].surface_type # "Application"
  \/ last.queue_id \notin surfaces[last.surface_id].queue_ids

\* C10: GetSurfaceQueue answers EINVAL, and creates no consumer handle, when
\* surface_id names no surface, or a surface that is not of application type,
\* or an application surface without a queue queue_id.
C10_BadSurfaceOrQueueIsEINVAL ==
  (last.op = "GetSurfaceQueue" /\ C10_BadRequest) =>
    (last.error = EINVAL /\ last.calls = << >>)

\* A queue that exists on a surface of the other type was asked for.
C10_Witness ==
  /\ last.op = "GetSurfaceQueue"
  /\ last.surface_id \in SurfaceIds
  /\ surfaces[last.surface_id].present
  /\ surfaces[last.surface_id].surface_type = "Direct"
  /\ last.queue_id \in surfaces[last.surface_id].queue_ids
  /\ last.error = EINVAL

\* C11: a SetupNamedBuffer sent by an identity that is neither root nor in the
\* trusted set is answered EPERM and DisplayService::SetupNamedBuffer is not
\* called; whenever that collaborator was called the sender was trusted; and
\* for a trusted sender it is called once and its outcome, the buffer or its
\* error, is the reply.
C11_SetupNamedBufferTrustedOnly ==
  last.op = "SetupNamedBuffer" =>
    /\ (last.user_id # AID_ROOT /\ last.user_id \notin TrustedUids)
         => (last.error = "EPERM" /\ last.calls = << >>)
    /\ \A i \in 1..Len(last.calls) :
         last.calls[i].fn = "SetupNamedBuffer"
           => (last.user_id = AID_ROOT \/ last.user_id \in TrustedUids)
    /\ (last.user_id = AID_ROOT \/ last.user_id \in TrustedUids)
         => /\ Len(last.calls) = 1
            /\ last.calls[1].fn = "SetupNamedBuffer"
            /\ last.calls[1].ok => last.error = "OK"
            /\ ~last.calls[1].ok => last.error = "SetupNamedBuffer"

\* An untrusted sender was turned away on a live channel that a trusted
\* identity had opened.
C11_Witness ==
  /\ last.op = "SetupNamedBuffer"
  /\ last.user_id = UntrustedUid
  /\ last.error = "EPERM"
  /\ last.calls = << >>
  /\ display_manager_ # NoChannel

C12_PropertyOf ==
  [kLensMetrics |-> "ro.dvr.lens_metrics",
   kDeviceMetrics |-> "ro.dvr.device_metrics",
   kDeviceConfiguration |-> "ro.dvr.device_configuration"]

\* C12: GetConfigurationData answers EINVAL, reading no property, when
\* config_type is none of the three types; otherwise it reads the property of
\* that type and no other, and answers ENOENT when the property is empty,
\* otherwise the I/O error when the file named by it cannot be read, otherwise
\* exactly what was read from that file.
C12_ConfigurationDataByType ==
  last.op = "GetConfigurationData" =>
    IF last.config_type \notin DOMAIN C12_PropertyOf
      THEN last.error = "EINVAL" /\ last.calls = << >> /\ last.data = ""
      ELSE /\ Len(last.calls) >= 1
           /\ last.calls[1].fn = "GetProperty"
           /\ last.calls[1].name = C12_PropertyOf[last.config_type]
           /\ \A i \in 2..Len(last.calls) : last.calls[i].fn # "GetProperty"
           /\ IF last.calls[1].value = ""
                THEN last.error = "ENOENT" /\ Len(last.calls) = 1 /\ last.data = ""
                ELSE /\ Len(last.calls) = 2
                     /\ last.calls[2].fn = "ReadFileToString"
                     /\ last.calls[2].path = last.calls[1].value
                     /\ IF last.calls[2].result = "errno"
                          THEN last.error = "errno" /\ last.data = ""
                          ELSE last.error = "OK" /\ last.data = last.calls[2].result

\* The device metrics file was read and returned.
C12_Witness ==
  /\ last.op = "GetConfigurationData"
  /\ last.config_type = "kDeviceMetrics"
  /\ last.error = "OK"
  /\ last.data = "bytes"
  /\ Len(last.calls) = 2
  /\ last.calls[1].name = "ro.dvr.device_metrics"

\* C13: no message handler runs while display_manager_ is empty: in every
\* state in which a message is dispatched, GetSurfaceState included,
\* display_manager_ is set and is the one open channel, the channel the
\* message arrived on; so GetSurfaceState never dereferences an empty
\* reference.
C13_MessagesOnlyOnLiveChannel ==
  [][last'.op \in {"GetSurfaceState", "GetSurfaceQueue", "SetupNamedBuffer",
                   "GetConfigurationData", "DefaultHandleMessage"} =>
       /\ display_manager_ # NoChannel
       /\ open_channels = {display_manager_}
       /\ last'.error # "SIGSEGV"
       /\ last'.op = "GetSurfaceState" =>
            /\ Len(last'.calls) = 1
            /\ last'.calls[1].channel_id = display_manager_]_vars

\* A GetSurfaceState was served on the channel of a later session and toggled
\* that channel.
C13_Witness ==
  /\ last.op = "GetSurfaceState"
  /\ issued > 1
  /\ display_manager_ = issued
  /\ open_channels = {issued}
  /\ Len(last.calls) = 1
  /\ last.calls[1].channel_id = issued

C14_ToggleFailed ==
  /\ Len(last.calls) = 1
  /\ last.calls[1].fn = "ModifyChannelEvents"
  /\ ~last.calls[1].ok

\* C14: a failed ModifyChannelEvents is neither fatal nor a request error: a
\* GetSurfaceState whose disarm fails still answers OK with one snapshot for
\* each application surface and leaves their update flags empty; a surface
\* change whose arm fails completes and leaves the session as it was; and
\* after either the service still takes open, close and message events.
C14_ToggleFailureIsNotAnError ==
  /\ (last.op = "GetSurfaceState" /\ C14_ToggleFailed) =>
       /\ last.error = "OK"
       /\ {last.items[i].surface_id : i \in 1..Len(last.items)} =
            {id \in SurfaceIds :
               surfaces[id].present /\ surfaces[id].surface_type = "Application"}
       /\ \A id \in SurfaceIds :
            (surfaces[id].present /\ surfaces[id].surface_type = "Application")
              => surfaces[id].update_flags = {}
  /\ (last.op = "OnDisplaySurfaceChange" /\ C14_ToggleFailed) =>
       /\ last.error = "OK"
       /\ display_manager_ = last.calls[1].channel_id
  /\ C14_ToggleFailed =>
       /\ open_channels = {display_manager_}
       /\ ENABLED OnChannelOpen
       /\ ENABLED OnChannelClose
       /\ ENABLED GetSurfaceState
       /\ ENABLED GetConfigurationData

\* A snapshot with a surface's update flags was returned by a GetSurfaceState
\* whose disarm failed, the flag staying set.
C14_Witness ==
  /\ last.op = "GetSurfaceState"
  /\ C14_ToggleFailed
  /\ last.error = "OK"
  /\ Len(last.items) = 1
  /\ last.items[1].update_flags # {}
  /\ NotificationsPending(display_manager_)

\* The one ModifyChannelEvents call of the last SetNotificationsPending, which
\* was made with pending true by the surface-change notifier and with pending
\* false by GetSurfaceState.
C15_OneCallOnOwnHandle ==
  /\ Len(last.calls) = 1
  /\ last.calls[1].fn = "ModifyChannelEvents"
  /\ last.calls[1].channel_id = display_manager_

C15_PendingTrue == last.op = "OnDisplaySurfaceChange" /\ display_manager_ # NoChannel
C15_PendingFalse == last.op = "GetSurfaceState" /\ display_manager_ # NoChannel

\* C15 as stated: SetNotificationsPending makes exactly one ModifyChannelEvents
\* call on the channel's own handle; with pending true it sets the readable
\* signal and clears the writable signal, with pending false it clears the
\* readable signal and sets the writable signal.
C15_TogglesReadableAgainstWritable ==
  /\ C15_PendingTrue =>
       /\ C15_OneCallOnOwnHandle
       /\ "POLLIN" \in last.calls[1].set_mask
       /\ "POLLOUT" \in last.calls[1].clear_mask
  /\ C15_PendingFalse =>
       /\ C15_OneCallOnOwnHandle
       /\ "POLLIN" \in last.calls[1].clear_mask
       /\ "POLLOUT" \in last.calls[1].set_mask

\* C15 amended: SetNotificationsPending makes exactly one ModifyChannelEvents
\* call on the channel's own handle; with pending true it sets the readable
\* signal and clears nothing, with pending false it clears the readable
\* signal and sets nothing; no other signal of the channel is ever touched.
C15_TogglesReadableOnly ==
  /\ C15_PendingTrue =>
       /\ C15_OneCallOnOwnHandle
       /\ last.calls[1].set_mask = {"POLLIN"}
       /\ last.calls[1].clear_mask = {}
  /\ C15_PendingFalse =>
       /\ C15_OneCallOnOwnHandle
       /\ last.calls[1].clear_mask = {"POLLIN"}
       /\ last.calls[1].set_mask = {}
  /\ \A c \in ChannelIds : channel_events[c] \subseteq {"POLLIN"}

\* A surface change set the readable signal of the live channel, with an empty
\* clear mask.
C15_Witness ==
  /\ C15_PendingTrue
  /\ C15_OneCallOnOwnHandle
  /\ last.calls[1].ok
  /\ last.calls[1].clear_mask = {}
  /\ channel_events[display_manager_] = {"POLLIN"}

\* C16: the notifier registered at construction consults display_manager_ at
\* each surface mutation: with no live channel it makes no ModifyChannelEvents
\* call and changes neither the reference nor any channel's events; with a
\* live channel, a later session's one included, it makes its one call on the
\* channel live at that moment, arming it when the call succeeds, and leaves
\* every other channel, closed ones included, untouched.
C16_NotifierArmsTheLiveChannel ==
  [][last'.op = "OnDisplaySurfaceChange" =>
       /\ surfaces' # surfaces
       /\ display_manager_' = display_manager_
       /\ open_channels' = open_channels
       /\ IF display_manager_ = NoChannel
            THEN last'.calls = << >> /\ channel_events' = channel_events
            ELSE /\ Len(last'.calls) = 1
                 /\ last'.calls[1].fn = "ModifyChannelEvents"
                 /\ last'.calls[1].channel_id = display_manager_
                 /\ last'.calls[1].ok => "POLLIN" \in channel_events'[display_manager_]
                 /\ \A c \in ChannelIds \ {display_manager_} :
                      channel_events'[c] = channel_events[c]
       /\ \A c \in ChannelIds \ open_channels : channel_events'[c] = {}]_vars

\* A mutation armed the channel of a later session; the closed channels of the
\* earlier sessions are not armed.
C16_Witness ==
  /\ last.op = "OnDisplaySurfaceChange"
  /\ issued > 1
  /\ display_manager_ = issued
  /\ Len(last.calls) = 1
  /\ last.calls[1].channel_id = issued
  /\ "POLLIN" \in channel_events[issued]
  /\ \A c \in ChannelIds \ {issued} : channel_events[c] = {}

\* C17: OnChannelClose clears display_manager_ exactly when the closing
\* channel is the live one; a close for any other channel leaves the
\* reference, the live channel and its pending flag as they were, so that
\* admission stays blocked.
C17_CloseClearsOnlyTheLiveChannel ==
  [][OnChannelClose =>
       IF last'.channel_id = display_manager_
         THEN display_manager_' = NoChannel
         ELSE /\ display_manager_' = display_manager_
              /\ display_manager_ # NoChannel =>
                   /\ display_manager_ \in open_channels'
                   /\ channel_events'[display_manager_] = channel_events[display_manager_]
                   /\ display_manager_' # NoChannel]_vars

\* A connection without a channel object closed while a channel was live and
\* armed: the channel is still live and armed.
C17_Witness ==
  /\ last.op = "OnChannelClose"
  /\ last.channel_id = NoChannel
  /\ display_manager_ # NoChannel
  /\ open_channels = {display_manager_}
  /\ "POLLIN" \in channel_events[display_manager_]

\* Surface id was reported with update flags by the last GetSurfaceState, which
\* cleared them.
C18_Reported(id) ==
  /\ last.op = "GetSurfaceState"
  /\ \E i \in 1..Len(last.items) :
       /\ last.items[i].surface_id = id
       /\ last.items[i].update_flags # {}
  /\ surfaces[id].update_flags = {}

\* C18 as stated: while the live channel keeps being polled, every surface
\* mutation is eventually reported in the update flags of a returned snapshot
\* and then cleared, whatever the ModifyChannelEvents toggles do.
C18_EveryMutationReported ==
  \A id \in SurfaceIds :
    (surfaces[id].present /\ surfaces[id].update_flags # {}
       /\ display_manager_ # NoChannel)
      ~> (C18_Reported(id) \/ display_manager_ = NoChannel)

\* C18 amended: while the live channel keeps being polled, every mutation
\* recorded in the update flags of an application surface is eventually
\* reported in a returned snapshot and then cleared, unless the surface is
\* removed first, whatever the ModifyChannelEvents toggles do.
C18_ApplicationMutationReported ==
  \A id \in SurfaceIds :
    (surfaces[id].present /\ surfaces[id].surface_type = "Application"
       /\ surfaces[id].update_flags # {} /\ display_manager_ # NoChannel)
      ~> (C18_Reported(id) \/ ~surfaces[id].present \/ display_manager_ = NoChannel)

\* A mutation was reported by a GetSurfaceState although the readable signal
\* was never raised for it and the disarm of this call failed too.
C18_Witness ==
  /\ \E id \in SurfaceIds : C18_Reported(id)
  /\ Len(last.calls) = 1
  /\ ~last.calls[1].ok
  /\ display_manager_ # NoChannel
  /\ channel_events[display_manager_] = {}

\* C19: display_manager_ changes only in an accepted OnChannelOpen, which sets
\* it to the new channel, and in the OnChannelClose of the live channel, which
\* empties it; the live channel's pending flag and the surface registry change
\* only in GetSurfaceState and in a surface change; a rejected OnChannelOpen
\* and every GetSurfaceQueue, SetupNamedBuffer and GetConfigurationData,
\* answered with an error or not, leave the reference, every channel's events
\* and every surface as they were.
C19_OnlyTheNamedEventsWrite ==
  [][/\ display_manager_' # display_manager_ =>
          \/ /\ last'.op = "OnChannelOpen"
             /\ last'.error = "OK"
             /\ display_manager_ = NoChannel
             /\ display_manager_' = last'.channel
          \/ /\ last'.op = "OnChannelClose"
             /\ last'.channel_id = display_manager_
             /\ display_manager_' = NoChannel
     /\ (/\ display_manager_ # NoChannel
         /\ display_manager_' = display_manager_
         /\ channel_events'[display_manager_] # channel_events[display_manager_])
          => last'.op \in {"GetSurfaceState", "OnDisplaySurfaceChange"}
     /\ surfaces' # surfaces
          => last'.op \in {"GetSurfaceState", "OnDisplaySurfaceChange"}
     /\ (\/ last'.op \in {"GetSurfaceQueue", "SetupNamedBuffer", "GetConfigurationData"}
         \/ last'.op = "OnChannelOpen" /\ last'.error = "EPERM")
          => /\ display_manager_' = display_manager_
             /\ channel_events' = channel_events
             /\ surfaces' = surfaces]_vars

\* A GetSurfaceQueue was answered with a queue handle while the live channel
\* was armed and the surface had unreported update flags: both are still so.
C19_Witness ==
  /\ last.op = "GetSurfaceQueue"
  /\ last.error = "OK"
  /\ Len(last.calls) = 1
  /\ display_manager_ # NoChannel
  /\ "POLLIN" \in channel_events[display_manager_]
  /\ surfaces[last.surface_id].update_flags # {}

\* C20: a surface mutation is not lost across sessions: OnChannelOpen and
\* OnChannelClose leave every surface as it is; a registered surface loses an
\* update flag only in a GetSurfaceState whose returned sequence has that
\* surface with the flags it had; and every GetSurfaceState, the first of a
\* later channel included, reports for each application surface the flags
\* set on it since it was last reported, whenever they were set.
C20_MutationsSurviveSessions ==
  [][/\ last'.op \in {"OnChannelOpen", "OnChannelClose"} => surfaces' = surfaces
     /\ \A id \in SurfaceIds :
          (/\ surfaces[id].present
           /\ surfaces'[id].present
           /\ ~(surfaces[id].update_flags \subseteq surfaces'[id].update_flags))
            => /\ last'.op = "GetSurfaceState"
               /\ \E i \in 1..Len(last'.items) :
                    /\ last'.items[i].surface_id = id
                    /\ last'.items[i].update_flags = surfaces[id].update_flags
     /\ last'.op = "GetSurfaceState" =>
          \A id \in SurfaceIds :
            (surfaces[id].present /\ surfaces[id].surface_type = "Application")
              => \E i \in 1..Len(last'.items) :
                   /\ last'.items[i].surface_id = id
                   /\ last'.items[i].update_flags = surfaces[id].update_flags]_vars

\* A later session's channel has just been admitted while an application
\* surface still carries update flags that no snapshot has reported.
C20_Witness ==
  /\ last.op = "OnChannelOpen"
  /\ last.error = "OK"
  /\ issued > 1
  /\ display_manager_ = issued
  /\ \E id \in SurfaceIds :
       /\ surfaces[id].present
       /\ surfaces[id].surface_type = "Application"
       /\ surfaces[id].update_flags # {}
====
